---- MODULE Spec2Model ----
(***************************************************************************)
(* Model of motion-tracker-pro: the useObjectTracking hook                 *)
(* (src/src/pages/Index.tsx, lines 608-848), the page that saves boxes and *)
(* finalizes the selection (lines 17-256) and the kinematics utilities     *)
(* analyzeMotion / smoothMotionData (src/unnamed/part_000).                *)
(*                                                                         *)
(* Specifications.  Spec: tracking runs of the hook with any arguments.    *)
(* SpecIndex: the page, whose finalizations call the hook.  SpecDetect:    *)
(* one detection step.  SpecMotion: the kinematics on bounded inputs.      *)
(*                                                                         *)
(* Numbers.  JavaScript numbers are modelled exactly: pixel coordinates    *)
(* and frame indices are integers, confidences are integers in hundredths  *)
(* (0..100), and the kinematic quantities are exact rationals <<n, d>>.    *)
(* IEEE-754 rounding is not modelled.  Math.sqrt is modelled exactly on    *)
(* perfect squares; the inputs are chosen so that every square root taken  *)
(* is one (TLC stops with an error otherwise).                             *)
(***************************************************************************)
EXTENDS Integers, Sequences, FiniteSets, TLC

(***************************************************************************)
(* Bounds of the model.                                                    *)
(***************************************************************************)
MaxFrames == 3
MaxRuns == 2
MaxCands == 2

(***************************************************************************)
(* JavaScript Map<number, V>: entries in insertion order, keys distinct.   *)
(***************************************************************************)
EmptyMap == << >>

MapKeys(m) == [j \in 1..Len(m) |-> m[j].key]

MapHas(m, k) == \E j \in 1..Len(m) : m[j].key = k

MapGet(m, k) == m[CHOOSE j \in 1..Len(m) : m[j].key = k].value

MapSet(m, k, v) ==
    IF MapHas(m, k)
    THEN [j \in 1..Len(m) |-> IF m[j].key = k THEN [key |-> k, value |-> v] ELSE m[j]]
    ELSE Append(m, [key |-> k, value |-> v])

MapKeySet(m) == {m[j].key : j \in 1..Len(m)}

(***************************************************************************)
(* Math helpers.                                                           *)
(***************************************************************************)
Abs(n) == IF n < 0 THEN -n ELSE n

\* the largest r in lo..hi with r * r <= n
RECURSIVE RootBetween(_, _, _)
RootBetween(n, lo, hi) ==
    IF lo >= hi THEN lo
    ELSE LET mid == (lo + hi + 1) \div 2
         IN  IF mid * mid <= n THEN RootBetween(n, mid, hi)
             ELSE RootBetween(n, lo, mid - 1)

\* Math.sqrt on a perfect square (of a root below 2^15).
Sqrt(n) == CHOOSE r \in { RootBetween(n, 0, IF n < 32768 THEN n ELSE 32768) } : r * r = n

\* Math.round of the non-negative quotient p / q (q > 0): halves round up.
RoundDiv(p, q) == (2 * p + q) \div (2 * q)

(***************************************************************************)
(* The frames.  Every frame decodes to an image of this size; model        *)
(* tensors are 640 x 640.                                                  *)
(***************************************************************************)
FrameSize == [width |-> 1280, height |-> 640]

ModelSize == 640

\* postprocessResults: maxScore > 0.25, in hundredths
Threshold == 25

Box(x, y, w, h) == [x |-> x, y |-> y, w |-> w, h |-> h]

\* { ...roi, confidence: c }
WithConfidence(roi, c) ==
    [x |-> roi.x, y |-> roi.y, w |-> roi.w, h |-> roi.h, confidence |-> c]

\* faulty variant of MissEntry: { confidence: 0, ...currentROI }
SpreadAfterConfidence(roi) ==
    IF "confidence" \in DOMAIN roi THEN roi ELSE WithConfidence(roi, 0)

\* the entry of a step without detection: { ...currentROI, confidence: 0 }
MissEntry(roi) == WithConfidence(roi, 0)

\* The boxes a user draws (initialROI).
InitialROIs == { Box(100, 100, 20, 20), Box(108, 104, 16, 12) }

\* A proposal of the YOLO output: centre x, y and size w, h in the 640 x 640
\* tensor space, and its best class score.
Proposal(x, y, w, h, s) == [x |-> x, y |-> y, w |-> w, h |-> h, score |-> s]

Proposals ==
    { Proposal(55, 110, 10, 20, 90),
      Proposal(58, 110, 10, 20, 60),
      Proposal(55, 118, 8, 12, 100),
      Proposal(58, 110, 8, 12, 20) }

(***************************************************************************)
(* postprocessResults (Index.tsx 774-832).  results is the sequence of the *)
(* proposals of the output tensor, in tensor order.  Coordinates are kept  *)
(* doubled where the code halves a width, so that they stay integers; a    *)
(* score maxScore / (1 + distance / 100) is the exact rational             *)
(* <<200 * maxScore, 200 + 2 * distance>>.                                 *)
(***************************************************************************)
Null == [null |-> TRUE]

IsNull(d) == "null" \in DOMAIN d

\* v * originalSize / 640
ToPixels(v, originalSize) == (v * originalSize) \div ModelSize

\* 2 * (targetROI.x + targetROI.w / 2), 2 * (targetROI.y + targetROI.h / 2)
TargetCenter2(targetROI) ==
    [x |-> 2 * targetROI.x + targetROI.w, y |-> 2 * targetROI.y + targetROI.h]

\* 2 * distance between the proposal's centre, scaled by originalSize / 640,
\* and the target's centre
Distance2(p, targetROI, originalWidth, originalHeight) ==
    LET dx == 2 * ToPixels(p.x, originalWidth) - TargetCenter2(targetROI).x
        dy == 2 * ToPixels(p.y, originalHeight) - TargetCenter2(targetROI).y
    IN  Sqrt(dx * dx + dy * dy)

ProposalScore(p, targetROI, originalWidth, originalHeight) ==
    << 200 * p.score, 200 + Distance2(p, targetROI, originalWidth, originalHeight) >>

\* score > bestScore on exact rationals with positive denominators
ScoreGreater(s, best) == s[1] * best[2] > best[1] * s[2]

\* bestDetection = { x: (x - w/2) * W / 640, ..., confidence: maxScore }
DetectionOf(p, originalWidth, originalHeight) ==
    [x |-> ((2 * p.x - p.w) * originalWidth) \div (2 * ModelSize),
     y |-> ((2 * p.y - p.h) * originalHeight) \div (2 * ModelSize),
     w |-> ToPixels(p.w, originalWidth),
     h |-> ToPixels(p.h, originalHeight),
     confidence |-> p.score]

\* The loop over the proposals from position j on, with the loop's
\* bestDetection and bestScore so far.
RECURSIVE PostprocessFrom(_, _, _, _, _, _, _)
PostprocessFrom(results, j, targetROI, originalWidth, originalHeight, bestDetection, bestScore) ==
    IF j > Len(results) THEN bestDetection
    ELSE LET p == results[j]
             score == ProposalScore(p, targetROI, originalWidth, originalHeight)
         IN  IF p.score > Threshold /\ ScoreGreater(score, bestScore)
             THEN PostprocessFrom(results, j + 1, targetROI, originalWidth, originalHeight,
                                  DetectionOf(p, originalWidth, originalHeight), score)
             ELSE PostprocessFrom(results, j + 1, targetROI, originalWidth, originalHeight,
                                  bestDetection, bestScore)

postprocessResults(results, targetROI, originalWidth, originalHeight) ==
    PostprocessFrom(results, 1, targetROI, originalWidth, originalHeight, Null, <<0, 1>>)

(***************************************************************************)
(* Exact rational arithmetic for the kinematics: <<n, d>> in lowest terms  *)
(* with d > 0.  A zero denominator is what JavaScript yields on division   *)
(* by zero: <<0, 0>> is NaN, <<1, 0>> and <<-1, 0>> are the infinities.    *)
(***************************************************************************)
RECURSIVE GCD(_, _)
GCD(a, b) == IF b = 0 THEN a ELSE GCD(b, a % b)

Sign(n) == IF n > 0 THEN 1 ELSE IF n < 0 THEN -1 ELSE 0

Rat(n, d) ==
    IF d = 0 THEN << Sign(n), 0 >>
    ELSE LET g == GCD(Abs(n), Abs(d))
         IN  << (Sign(d) * n) \div g, Abs(d) \div g >>

Num(n) == << n, 1 >>

RAdd(a, b) == Rat(a[1] * b[2] + b[1] * a[2], a[2] * b[2])

RSub(a, b) == Rat(a[1] * b[2] - b[1] * a[2], a[2] * b[2])

RMul(a, b) == Rat(a[1] * b[1], a[2] * b[2])

RDiv(a, b) == Rat(a[1] * b[2], a[2] * b[1])

\* Math.sqrt of a rational that is a square
RSqrt(a) == << Sqrt(a[1]), Sqrt(a[2]) >>

(***************************************************************************)
(* analyzeMotion (part_000 21-105).                                        *)
(***************************************************************************)
RECURSIVE InsertAscending(_, _)
InsertAscending(sorted, k) ==
    IF sorted = << >> THEN << k >>
    ELSE IF k - Head(sorted) < 0 THEN << k >> \o sorted
    ELSE << Head(sorted) >> \o InsertAscending(Tail(sorted), k)

RECURSIVE SortAscending(_)
SortAscending(keys) ==
    IF keys = << >> THEN << >>
    ELSE InsertAscending(SortAscending(Tail(keys)), Head(keys))

\* faulty variant of SortedFrames: the keys are left in insertion order
InsertionOrder(keys) == keys

\* Array.from(frameROIs.keys()).sort((a, b) => a - b)
SortedFrames(keys) == SortAscending(keys)

\* (roi.x + roi.w / 2) / pixelsPerMeter, (roi.y + roi.h / 2) / pixelsPerMeter
CenterX(roi, pixelsPerMeter) ==
    RDiv(RAdd(Num(roi.x), RDiv(Num(roi.w), Num(2))), Num(pixelsPerMeter))

CenterY(roi, pixelsPerMeter) ==
    RDiv(RAdd(Num(roi.y), RDiv(Num(roi.h), Num(2))), Num(pixelsPerMeter))

\* The velocity of the i-th sorted frame (i counts from 1), lines 45-78.
Velocity(roiMap, sortedFrames, dt, pixelsPerMeter, j) ==
    LET n == Len(sortedFrames)
        roi == MapGet(roiMap, sortedFrames[j])
        x == CenterX(roi, pixelsPerMeter)
        y == CenterY(roi, pixelsPerMeter)
        prevROI == MapGet(roiMap, sortedFrames[j - 1])
        nextROI == MapGet(roiMap, sortedFrames[j + 1])
        x_prev == CenterX(prevROI, pixelsPerMeter)
        y_prev == CenterY(prevROI, pixelsPerMeter)
        x_next == CenterX(nextROI, pixelsPerMeter)
        y_next == CenterY(nextROI, pixelsPerMeter)
        dt_total == RMul(Num(sortedFrames[j + 1] - sortedFrames[j - 1]), dt)
    IN  IF j > 1 /\ j < n
        THEN [vx |-> RDiv(RSub(x_next, x_prev), dt_total),
              vy |-> RDiv(RSub(y_next, y_prev), dt_total)]
        ELSE IF j > 1
        THEN [vx |-> RDiv(RSub(x, x_prev), dt), vy |-> RDiv(RSub(y, y_prev), dt)]
        ELSE IF j < n
        THEN [vx |-> RDiv(RSub(x_next, x), dt), vy |-> RDiv(RSub(y_next, y), dt)]
        ELSE [vx |-> Num(0), vy |-> Num(0)]

\* One iteration of the loop (33-102): the sample pushed for the j-th sorted
\* frame, given the samples pushed so far.
MotionSample(roiMap, sortedFrames, dt, pixelsPerMeter, j, motionData) ==
    LET frameIndex == sortedFrames[j]
        roi == MapGet(roiMap, frameIndex)
        v == Velocity(roiMap, sortedFrames, dt, pixelsPerMeter, j)
        prevMotion == motionData[j - 1]
        ax == IF j > 1 THEN RDiv(RSub(v.vx, prevMotion.vx), dt) ELSE Num(0)
        ay == IF j > 1 THEN RDiv(RSub(v.vy, prevMotion.vy), dt) ELSE Num(0)
    IN  [frame |-> frameIndex,
         x |-> CenterX(roi, pixelsPerMeter),
         y |-> CenterY(roi, pixelsPerMeter),
         vx |-> v.vx,
         vy |-> v.vy,
         speed |-> RSqrt(RAdd(RMul(v.vx, v.vx), RMul(v.vy, v.vy))),
         ax |-> ax,
         ay |-> ay,
         acceleration |-> IF j > 1 THEN RSqrt(RAdd(RMul(ax, ax), RMul(ay, ay))) ELSE Num(0),
         time |-> RMul(Num(frameIndex), dt)]

RECURSIVE AnalyzeFrom(_, _, _, _, _, _)
AnalyzeFrom(roiMap, sortedFrames, dt, pixelsPerMeter, j, motionData) ==
    IF j > Len(sortedFrames) THEN motionData
    ELSE AnalyzeFrom(roiMap, sortedFrames, dt, pixelsPerMeter, j + 1,
                     Append(motionData,
                            MotionSample(roiMap, sortedFrames, dt, pixelsPerMeter, j, motionData)))

analyzeMotion(roiMap, rate, pixelsPerMeter) ==
    LET sortedFrames == SortedFrames(MapKeys(roiMap))
        dt == RDiv(Num(1), Num(rate))
    IN  IF Len(sortedFrames) < 2 THEN << >>
        ELSE AnalyzeFrom(roiMap, sortedFrames, dt, pixelsPerMeter, 1, << >>)

(***************************************************************************)
(* smoothMotionData (part_000 107-135).                                    *)
(***************************************************************************)
Max(a, b) == IF a > b THEN a ELSE b

Min(a, b) == IF a < b THEN a ELSE b

\* Array.prototype.slice(start, end) with 0-based, possibly negative bounds
Slice(data, start, end) ==
    LET len == Len(data)
        from == IF start < 0 THEN Max(len + start, 0) ELSE Min(start, len)
        to == IF end < 0 THEN Max(len + end, 0) ELSE Min(end, len)
    IN  IF to <= from THEN << >> ELSE SubSeq(data, from + 1, to)

RECURSIVE SumOf(_, _)
SumOf(window, field) ==
    IF window = << >> THEN Num(0)
    ELSE RAdd(SumOf(SubSeq(window, 1, Len(window) - 1), field), window[Len(window)][field])

\* window.reduce((sum, d) => sum + d.field, 0) / window.length
MeanOf(window, field) == RDiv(SumOf(window, field), Num(Len(window)))

\* faulty variant of SmoothedFrom: frame and time of the window's first sample
FrameOfWindowStart(data, window, j) ==
    IF window = << >> THEN data[j] ELSE window[1]

\* the sample whose frame and time the averaged sample carries: data[i]
SmoothedFrom(data, window, j) == data[j]

\* One iteration of the loop (113-132) at the j-th sample (j counts from 1).
SmoothedSample(data, halfWindow, j) ==
    LET start == Max(0, (j - 1) - halfWindow)
        end == Min(Len(data), (j - 1) + halfWindow + 1)
        window == Slice(data, start, end)
    IN  [frame |-> SmoothedFrom(data, window, j).frame,
         time |-> SmoothedFrom(data, window, j).time,
         x |-> MeanOf(window, "x"),
         y |-> MeanOf(window, "y"),
         vx |-> MeanOf(window, "vx"),
         vy |-> MeanOf(window, "vy"),
         speed |-> MeanOf(window, "speed"),
         ax |-> MeanOf(window, "ax"),
         ay |-> MeanOf(window, "ay"),
         acceleration |-> MeanOf(window, "acceleration")]

smoothMotionData(data, windowSize) ==
    IF Len(data) < windowSize THEN data
    ELSE LET halfWindow == windowSize \div 2
         IN  [j \in 1..Len(data) |-> SmoothedSample(data, halfWindow, j)]

(***************************************************************************)
(* The detector backend handed to a tracking run: what session.run yields  *)
(* for a step with the given hint.  "perfect" yields one proposal that     *)
(* matches the hint exactly, score 1; "empty" yields no proposal; "free"   *)
(* yields any proposals, or throws.                                        *)
(***************************************************************************)
Detectors == {"perfect", "empty", "free"}

PerfectProposal(hint, originalWidth, originalHeight) ==
    Proposal(((2 * hint.x + hint.w) * ModelSize) \div (2 * originalWidth),
             ((2 * hint.y + hint.h) * ModelSize) \div (2 * originalHeight),
             (hint.w * ModelSize) \div originalWidth,
             (hint.h * ModelSize) \div originalHeight,
             100)

ProposalLists == UNION { [1..n -> Proposals] : n \in 0..MaxCands }

\* the outcomes of session.run(feeds): [throws, results]
InferenceOutcomes(mode, hint) ==
    CASE mode = "perfect" ->
           { [throws |-> FALSE,
              results |-> << PerfectProposal(hint, FrameSize.width, FrameSize.height) >>] }
      [] mode = "empty" -> { [throws |-> FALSE, results |-> << >>] }
      [] OTHER ->
           { [throws |-> FALSE, results |-> r] : r \in ProposalLists }
           \cup { [throws |-> TRUE, results |-> << >>] }

(***************************************************************************)
(* State.                                                                  *)
(***************************************************************************)
VARIABLES
    session,          \* useState session: TRUE once setSession(modelSession) ran
    isTracking,       \* useState isTracking
    progress,         \* useState progress
    pc,               \* position of trackObjectAcrossFrames:
                      \*   "idle", "ensure", "fwd", "bwd", "returned", "threw"
    closureSession,   \* session as captured by the callbacks of the render
                      \*   whose trackObjectAcrossFrames is running
    frames,           \* frames.length
    initialROI,       \* parameter initialROI
    startFrameIndex,  \* parameter startFrameIndex
    detector,         \* the backend behind the inference session
    i,                \* loop variable of the running pass
    currentROI,       \* let currentROI
    trackedROIs,      \* const trackedROIs = new Map()
    steps,            \* history: one record per completed loop iteration
    thrown,           \* what the run threw: "none", "load", "decode"
    loads,            \* history: calls of InferenceSession.create in this run
    runs,             \* history: number of runs started
    mpc,              \* position of the kinematics pipeline:
                      \*   "off", "input", "analyzed", "smoothed"
    inputROIs,        \* the boxes by frame index handed to analyzeMotion
    inputFps,         \* the frame rate handed to analyzeMotion
    insertionAscending, \* history: the Map handed over was filled in key order
    motionData,       \* the result of analyzeMotion
    windowSize,       \* the window handed to smoothMotionData
    smoothedMotion,   \* the result of smoothMotionData
    extractedFrames,  \* extractedFrames.length
    frameROIs,        \* useState frameROIs of the page
    handlerROIs,      \* frameROIs as captured by the running
                      \*   handleCompleteROISelection
    userSaved,        \* history: the box the user saved last at each index
    savedAtClick,     \* history: userSaved when the running finalization began
    saves,            \* history: number of boxes saved
    dpc,              \* position of one detection step:
                      \*   "off", "input", "cropped", "inferred", "detected"
    stepROI,          \* detectObject's targetROI
    stepRegion,       \* the region preprocessImage crops
    stepResults,      \* the proposals session.run returned
    stepDetection     \* the result of postprocessResults

trackerVars ==
    << session, isTracking, progress, pc, closureSession, frames, initialROI,
       startFrameIndex, detector, i, currentROI, trackedROIs, steps, thrown,
       loads, runs >>

motionVars ==
    << mpc, inputROIs, inputFps, insertionAscending, motionData, windowSize,
       smoothedMotion >>

indexVars ==
    << extractedFrames, frameROIs, handlerROIs, userSaved, savedAtClick, saves >>

detectVars == << dpc, stepROI, stepRegion, stepResults, stepDetection >>

vars == << trackerVars, motionVars, indexVars, detectVars >>

DetectIdle ==
    /\ dpc = "off"
    /\ stepROI = Box(0, 0, 0, 0)
    /\ stepRegion = Box(0, 0, 0, 0)
    /\ stepResults = << >>
    /\ stepDetection = Null

IndexIdle ==
    /\ extractedFrames = 0
    /\ frameROIs = EmptyMap
    /\ handlerROIs = EmptyMap
    /\ userSaved = << >>
    /\ savedAtClick = << >>
    /\ saves = 0

MotionIdle ==
    /\ mpc = "off"
    /\ inputROIs = << >>
    /\ inputFps = 1
    /\ insertionAscending = TRUE
    /\ motionData = << >>
    /\ windowSize = 0
    /\ smoothedMotion = << >>

TrackerInit ==
    /\ session = FALSE
    /\ isTracking = FALSE
    /\ progress = 0
    /\ pc = "idle"
    /\ closureSession = FALSE
    /\ frames = 0
    /\ initialROI = Box(0, 0, 0, 0)
    /\ startFrameIndex = 0
    /\ detector = "empty"
    /\ i = 0
    /\ currentROI = Box(0, 0, 0, 0)
    /\ trackedROIs = EmptyMap
    /\ steps = << >>
    /\ thrown = "none"
    /\ loads = 0
    /\ runs = 0

(***************************************************************************)
(* trackObjectAcrossFrames (Index.tsx 667-723).                            *)
(***************************************************************************)

\* The call up to the try block (673-677).  The callbacks of the current
\* render close over the current session state.
Call(n, start, roi, backend) ==
    /\ pc = "idle"
    /\ runs < MaxRuns
    /\ runs' = runs + 1
    /\ isTracking' = TRUE
    /\ progress' = 0
    /\ closureSession' = session
    /\ frames' = n
    /\ initialROI' = roi
    /\ startFrameIndex' = start
    /\ detector' = backend
    /\ trackedROIs' = EmptyMap
    /\ currentROI' = roi
    /\ steps' = << >>
    /\ thrown' = "none"
    /\ loads' = 0
    /\ i' = start
    /\ pc' = "ensure"
    /\ UNCHANGED session

\* faulty variant of Throw: the exception leaves without the finally block
ThrowPastFinally(what) ==
    /\ pc' = "threw"
    /\ thrown' = what
    /\ UNCHANGED << isTracking, progress >>

\* An exception leaves the try block through finally (719-722).
Throw(what) ==
    /\ pc' = "threw"
    /\ thrown' = what
    /\ isTracking' = FALSE
    /\ progress' = 0

\* if (!session) await loadModel()  (680-683, loadModel 624-638)
EnsureModel ==
    /\ UNCHANGED << motionVars, indexVars, detectVars >>
    /\ pc = "ensure"
    /\ IF closureSession
       THEN /\ pc' = "fwd"
            /\ UNCHANGED << session, loads, thrown, isTracking, progress >>
       ELSE \E created \in BOOLEAN :
              /\ loads' = loads + 1
              /\ IF created
                 THEN /\ session' = TRUE
                      /\ pc' = "fwd"
                      /\ UNCHANGED << thrown, isTracking, progress >>
                 ELSE /\ Throw("load")
                      /\ UNCHANGED session
    /\ UNCHANGED << closureSession, frames, initialROI, startFrameIndex, detector,
                    i, currentROI, trackedROIs, steps, runs >>

\* await loadImageData(frames[i]) (834-848): frames[i] is undefined outside
\* 0..frames.length-1, and the image of an undefined source never loads.
DecodeOutcomes(index) ==
    IF index \in 0..(frames - 1) THEN {TRUE, FALSE} ELSE {FALSE}

\* detectObject (640-665) with a session in its closure: the try block.
DetectWithSession(outcome, targetROI) ==
    IF outcome.throws THEN Null
    ELSE postprocessResults(outcome.results, targetROI, FrameSize.width, FrameSize.height)

\* Math.round(((i + 1) / frames.length) * 100)
ProgressPercent(index, total) == RoundDiv((index + 1) * 100, total)

\* The end of one loop iteration (690-699, 708-715): the detection is
\* recorded, or the hint with confidence 0, and the progress is reported.
Record(pass, detection, fault, nextI, current, newProgress) ==
    /\ IF IsNull(detection)
       THEN /\ trackedROIs' = MapSet(trackedROIs, i, MissEntry(currentROI))
            /\ UNCHANGED currentROI
       ELSE /\ trackedROIs' = MapSet(trackedROIs, i, detection)
            /\ currentROI' = detection
    /\ steps' = Append(steps, [pass |-> pass, frame |-> i, hint |-> currentROI,
                               found |-> ~IsNull(detection), fault |-> fault,
                               report |-> << current, frames >>])
    /\ progress' = newProgress
    /\ i' = nextI
    /\ UNCHANGED << pc, thrown, isTracking >>

\* The body of one loop iteration at frame i (687-699, 705-715).
TrackStep(pass, nextI, current, newProgress) ==
    \E decoded \in DecodeOutcomes(i) :
      IF ~decoded
      THEN /\ Throw("decode")
           /\ UNCHANGED << session, loads, i, currentROI, trackedROIs, steps >>
      ELSE IF ~closureSession
      THEN \* detectObject without session in its closure: await loadModel()
           \E created \in BOOLEAN :
             /\ loads' = loads + 1
             /\ IF ~created
                THEN \* loadModel rejects, outside the try block
                     /\ Throw("load")
                     /\ UNCHANGED << session, i, currentROI, trackedROIs, steps >>
                ELSE \* session!.run throws a TypeError inside the try
                     \* block: the catch returns null
                     /\ session' = TRUE
                     /\ Record(pass, Null, "nosession", nextI, current, newProgress)
      ELSE \E outcome \in InferenceOutcomes(detector, currentROI) :
             /\ Record(pass, DetectWithSession(outcome, currentROI),
                       IF outcome.throws THEN "inference" ELSE "none",
                       nextI, current, newProgress)
             /\ UNCHANGED << session, loads >>

\* i < frames.length
ForwardContinues == i < frames

\* for (let i = startFrameIndex; i < frames.length; i++)
ForwardStep ==
    /\ UNCHANGED << motionVars, indexVars, detectVars >>
    /\ pc = "fwd"
    /\ ForwardContinues
    /\ TrackStep("fwd", i + 1, i + 1, ProgressPercent(i, frames))
    /\ UNCHANGED << closureSession, frames, initialROI, startFrameIndex, detector, runs >>

\* faulty variant of ForwardDone: the backward pass goes on from the box the
\* forward pass ended with
ForwardDoneKeepsROI ==
    /\ UNCHANGED << motionVars, indexVars, detectVars >>
    /\ pc = "fwd"
    /\ ~(i < frames)
    /\ pc' = "bwd"
    /\ i' = startFrameIndex - 1
    /\ UNCHANGED << session, isTracking, progress, closureSession, frames, initialROI,
                    startFrameIndex, detector, trackedROIs, steps, thrown, loads, runs,
                    currentROI >>

\* The forward loop ends; currentROI = initialROI; i = startFrameIndex - 1 (703-704)
ForwardDone ==
    /\ UNCHANGED << motionVars, indexVars, detectVars >>
    /\ pc = "fwd"
    /\ ~ForwardContinues
    /\ pc' = "bwd"
    /\ currentROI' = initialROI
    /\ i' = startFrameIndex - 1
    /\ UNCHANGED << session, isTracking, progress, closureSession, frames, initialROI,
                    startFrameIndex, detector, trackedROIs, steps, thrown, loads, runs >>

\* faulty variant of BackwardContinues: i > 0
BackwardStopsAtOne == i > 0

\* i >= 0
BackwardContinues == i >= 0

\* faulty variant of BackwardStep: onProgress(i + 1, frames.length)
BackwardReportsIndex ==
    /\ UNCHANGED << motionVars, indexVars, detectVars >>
    /\ pc = "bwd"
    /\ i >= 0
    /\ TrackStep("bwd", i - 1, i + 1, progress)
    /\ UNCHANGED << closureSession, frames, initialROI, startFrameIndex, detector, runs >>

\* for (let i = startFrameIndex - 1; i >= 0; i--)
BackwardStep ==
    /\ UNCHANGED << motionVars, indexVars, detectVars >>
    /\ pc = "bwd"
    /\ BackwardContinues
    /\ TrackStep("bwd", i - 1, frames - i, progress)
    /\ UNCHANGED << closureSession, frames, initialROI, startFrameIndex, detector, runs >>

\* return trackedROIs, through finally (718-722)
Return ==
    /\ UNCHANGED << motionVars, indexVars, detectVars >>
    /\ pc = "bwd"
    /\ ~BackwardContinues
    /\ pc' = "returned"
    /\ isTracking' = FALSE
    /\ progress' = 0
    /\ UNCHANGED << session, closureSession, frames, initialROI, startFrameIndex,
                    detector, i, currentROI, trackedROIs, steps, thrown, loads, runs >>

\* The caller has the result, or the exception (Index.tsx 221, 249): the
\* hook is at rest until the next call.
Rest ==
    /\ pc' = "idle"
    /\ frames' = 0
    /\ initialROI' = Box(0, 0, 0, 0)
    /\ startFrameIndex' = 0
    /\ detector' = "empty"
    /\ i' = 0
    /\ currentROI' = Box(0, 0, 0, 0)
    /\ trackedROIs' = EmptyMap
    /\ steps' = << >>
    /\ thrown' = "none"
    /\ loads' = 0
    /\ closureSession' = FALSE
    /\ UNCHANGED << session, isTracking, progress, runs >>

Settle ==
    /\ pc \in {"returned", "threw"}
    /\ Rest
    /\ UNCHANGED << motionVars, indexVars, detectVars >>

StartRun ==
    \E n \in 0..MaxFrames, start \in (-1)..(MaxFrames + 1),
       roi \in InitialROIs, backend \in Detectors :
      /\ Call(n, start, roi, backend)
      /\ UNCHANGED << motionVars, indexVars, detectVars >>

Init == TrackerInit /\ MotionIdle /\ IndexIdle /\ DetectIdle

Next ==
    \/ StartRun
    \/ EnsureModel
    \/ ForwardStep
    \/ ForwardDone
    \/ BackwardStep
    \/ Return
    \/ Settle

Spec == Init /\ [][Next]_vars

(***************************************************************************)
(* Properties of the tracking run.                                         *)
(***************************************************************************)
ValidAnchor == frames >= 1 /\ startFrameIndex \in 0..(frames - 1)

\* insertion order of a full run: a, ..., N-1, a-1, ..., 0
RunOrder(n, a) == [j \in 1..n |-> IF j <= n - a THEN a + j - 1 ELSE n - j]

StepsOf(pass) == SelectSeq(steps, LAMBDA st : st.pass = pass)

FramesOf(pass) == [j \in 1..Len(StepsOf(pass)) |-> StepsOf(pass)[j].frame]

\* C1: a run with a valid anchor that returns yields a map whose keys are
\* exactly 0..N-1, each once: the forward pass recorded a..N-1 in ascending
\* order and the backward pass a-1..0 in descending order.
C1_CoversEveryFrame ==
    (pc = "returned" /\ ValidAnchor) =>
        /\ MapKeySet(trackedROIs) = 0..(frames - 1)
        /\ Len(trackedROIs) = frames
        /\ MapKeys(trackedROIs) = RunOrder(frames, startFrameIndex)
        /\ FramesOf("fwd") = [j \in 1..(frames - startFrameIndex) |-> startFrameIndex + j - 1]
        /\ FramesOf("bwd") = [j \in 1..startFrameIndex |-> startFrameIndex - j]

\* a returned run over 3 frames anchored at frame 1, with hits and misses
C1_Witness ==
    /\ pc = "returned"
    /\ frames = 3
    /\ startFrameIndex = 1
    /\ \E k \in 1..Len(steps) : steps[k].found
    /\ \E k \in 1..Len(steps) : ~steps[k].found

BoxOf(roi) == Box(roi.x, roi.y, roi.w, roi.h)

\* the hint the tracker threads into step k of the log: the initial box at
\* the first step of a pass, else the box recorded by the step before
ThreadedHint(log, map, k) ==
    IF k = 1 \/ log[k - 1].pass # log[k].pass
    THEN BoxOf(initialROI)
    ELSE BoxOf(MapGet(map, log[k - 1].frame))

\* a loop iteration completed without detection
MissStep ==
    /\ Len(steps') = Len(steps) + 1
    /\ ~steps'[Len(steps')].found

C2_MissRecordsHint ==
    MissStep =>
        /\ MapGet(trackedROIs', i) = WithConfidence(currentROI, 0)
        /\ steps'[Len(steps')].hint = currentROI
        /\ BoxOf(currentROI) = ThreadedHint(steps', trackedROIs', Len(steps'))
        /\ pc' = pc
        /\ i' = IF pc = "fwd" THEN i + 1 ELSE i - 1
        /\ thrown' = "none"
        /\ isTracking'

C2_NeverFindingDetector ==
    detector = "empty" =>
        \A j \in 1..Len(trackedROIs) :
            trackedROIs[j].value = WithConfidence(initialROI, 0)

\* C2: a step without acceptable candidate records the hint's x, y, w, h
\* with confidence 0 (the hint being the box recorded by the previous step
\* of the pass, or the initial box at the first step of a pass), and the
\* pass goes on to the next frame; with a detector that never finds
\* anything every entry is the initial box with confidence 0.
C2_SoftMiss == [][C2_MissRecordsHint]_vars /\ []C2_NeverFindingDetector

\* a miss right after a hit of the same pass that moved the box away from
\* the initial box, in a run that went on and returned
C2_Witness ==
    /\ pc = "returned"
    /\ \E k \in 2..Len(steps) :
          /\ steps[k - 1].found
          /\ steps[k - 1].pass = steps[k].pass
          /\ ~steps[k].found
          /\ BoxOf(steps[k].hint) # BoxOf(initialROI)
          /\ k < Len(steps)

\* C3: with a backend that yields at every call one candidate matching the
\* hint exactly with confidence 1, a run that returns holds the initial box
\* with confidence 1 at every frame -- in every run, the first included.
C3_PerfectDetector ==
    (pc = "returned" /\ ValidAnchor /\ detector = "perfect") =>
        \A f \in 0..(frames - 1) :
            /\ MapHas(trackedROIs, f)
            /\ MapGet(trackedROIs, f) = WithConfidence(initialROI, 100)

\* C4: no operational failure (model load, inference, image decoding) ends
\* the run: the run never throws, and a step with a failure is recorded as
\* a soft miss.
C4_FailureNeverAborts ==
    ValidAnchor =>
        /\ pc # "threw"
        /\ \A k \in 1..Len(steps) :
              steps[k].fault # "none" =>
                  MapGet(trackedROIs, steps[k].frame) = WithConfidence(steps[k].hint, 0)

\* C5: a run whose anchor is no valid index into frames never returns a map.
C5_InvalidAnchorFails ==
    pc = "returned" => ValidAnchor

\* a loop iteration completed
StepTaken == Len(steps') = Len(steps) + 1

\* C15: a step is issued with the current box as hint; at the first step of
\* the forward pass and at the first step of the backward pass that is the
\* initial box, whatever the forward pass recorded; at every other step it
\* is the box the step before, of the same pass and at the neighbouring
\* frame, has already recorded.
C15_HintFromPrecedingStep ==
    [][StepTaken =>
        LET k == Len(steps')
        IN  /\ steps'[k].hint = currentROI
            /\ steps'[k].frame = i
            /\ IF k = 1 \/ steps[k - 1].pass # steps'[k].pass
               THEN /\ currentROI = initialROI
                    /\ i = IF steps'[k].pass = "fwd" THEN startFrameIndex
                           ELSE startFrameIndex - 1
               ELSE /\ steps[k - 1].frame = IF steps'[k].pass = "fwd" THEN i - 1 ELSE i + 1
                    /\ MapHas(trackedROIs, steps[k - 1].frame)
                    /\ BoxOf(currentROI) = BoxOf(MapGet(trackedROIs, steps[k - 1].frame))]_vars

\* a run whose forward pass moved the box away from the initial box and
\* threaded it on, and whose backward pass started from the initial box
C15_Witness ==
    /\ pc = "returned"
    /\ \E k \in 2..(Len(steps) - 1) :
          /\ steps[k - 1].pass = "fwd"
          /\ steps[k].pass = "fwd"
          /\ BoxOf(steps[k].hint) # BoxOf(initialROI)
          /\ BoxOf(MapGet(trackedROIs, steps[k].frame)) # BoxOf(initialROI)
          /\ steps[k + 1].pass = "bwd"
          /\ BoxOf(steps[k + 1].hint) = BoxOf(initialROI)

\* C17: within one run the model is loaded at most once, and a run that
\* starts with the session loaded does not load it again.
C17_SessionLoadedOnceAndReused ==
    /\ loads <= 1
    /\ closureSession => loads = 0

\* the value reported by step k of the log
Reported(k) == steps[k].report[1]

\* one report per processed frame, (i + 1, N) in the forward and (N - i, N)
\* in the backward pass, within 1..N and strictly increasing in each pass
ReportsPerStep ==
    /\ Len(steps) = Len(trackedROIs)
    /\ \A k \in 1..Len(steps) :
          /\ MapHas(trackedROIs, steps[k].frame)
          /\ \A m \in 1..Len(steps) : steps[m].frame = steps[k].frame => m = k
          /\ steps[k].report =
                IF steps[k].pass = "fwd" THEN << steps[k].frame + 1, frames >>
                ELSE << frames - steps[k].frame, frames >>
          /\ Reported(k) \in 1..frames
    /\ \A k \in 2..Len(steps) :
          steps[k - 1].pass = steps[k].pass => Reported(k - 1) < Reported(k)

\* the first step of the backward pass, after a forward pass with steps
PassChange(k) == steps[k - 1].pass = "fwd" /\ steps[k].pass = "bwd"

\* C18 as claimed: one report per processed frame, (i + 1, N) forward and
\* (N - i, N) backward, within 1..N, strictly increasing in each pass, and
\* the first value of the backward pass lower than the last value of the
\* forward pass whenever the anchor is at least 1.
C18_BackwardRestartsLower ==
    /\ ReportsPerStep
    /\ \A k \in 2..Len(steps) :
          (PassChange(k) /\ startFrameIndex >= 1) => Reported(k) < Reported(k - 1)

\* C18, amended: ... and the first value of the backward pass is N - a + 1
\* after a last value N of the forward pass: lower whenever the anchor is at
\* least 2, and the same value N when the anchor is 1.
C18_BackwardRestartsAtAnchor ==
    /\ ReportsPerStep
    /\ \A k \in 2..Len(steps) :
          PassChange(k) =>
              /\ Reported(k - 1) = frames
              /\ Reported(k) = frames - startFrameIndex + 1
              /\ startFrameIndex >= 2 => Reported(k) < Reported(k - 1)
              /\ startFrameIndex = 1 => Reported(k) = Reported(k - 1)

\* a returned run over 3 frames anchored at frame 1: reports 2, 3, then 3
C18_Witness ==
    /\ pc = "returned"
    /\ frames = 3
    /\ startFrameIndex = 1
    /\ Len(steps) = 3
    /\ Reported(2) = 3
    /\ Reported(3) = 3

\* C19: isTracking is true while a run is under way; once the run has
\* ended, by return or by exception, isTracking is false and progress is 0,
\* and so it stays until the next run starts.
C19_TrackingFlagFollowsRun ==
    /\ pc \in {"ensure", "fwd", "bwd"} => isTracking
    /\ pc \in {"returned", "threw", "idle"} => (~isTracking /\ progress = 0)

\* a run that threw in the middle of a pass, after progress was reported
C19_Witness ==
    /\ pc = "threw"
    /\ thrown \in {"load", "decode"}
    /\ Len(steps) >= 1
    /\ ~isTracking
    /\ progress = 0

(***************************************************************************)
(* The kinematics pipeline on its own: analyzeMotion applied to every      *)
(* bounded Map of boxes in every insertion order, then smoothMotionData    *)
(* applied to its result with every bounded window.                        *)
(***************************************************************************)
MaxKey == 3
MaxSamples == 3
MaxWindow == 4

\* default parameter pixelsPerMeter = 100
PixelsPerMeter == 100

FpsValues == {2, 10}

\* Boxes along a line through the origin: along x and along (3, 4), so that
\* every speed is rational.
Directions == { [x |-> 100, y |-> 0], [x |-> 300, y |-> 400] }

Positions == {0, 1, 3}

MotionBoxes(d) == { Box(d.x * t, d.y * t, 20, 10) : t \in Positions }

Tracks ==
    UNION { [K -> MotionBoxes(d)] :
              K \in { S \in SUBSET (0..MaxKey) : Cardinality(S) <= MaxSamples },
              d \in Directions }

WindowSizes == (-3)..MaxWindow

\* the orders in which the keys of K can have been inserted
Orders(K) ==
    { o \in [1..Cardinality(K) -> K] : \A a, b \in 1..Cardinality(K) : o[a] = o[b] => a = b }

\* the Map with the given contents, filled in the given order
MapOf(contents, order) ==
    [j \in 1..Len(order) |-> [key |-> order[j], value |-> contents[order[j]]]]

IsAscending(order) == \A j \in 1..(Len(order) - 1) : order[j] < order[j + 1]

MotionInit ==
    /\ TrackerInit
    /\ IndexIdle
    /\ DetectIdle
    /\ mpc = "input"
    /\ inputROIs \in Tracks
    /\ inputFps \in FpsValues
    /\ insertionAscending = TRUE
    /\ motionData = << >>
    /\ windowSize = 0
    /\ smoothedMotion = << >>

\* const motion = analyzeMotion(mergedROIs, fps)
Analyze ==
    /\ mpc = "input"
    /\ \E order \in Orders(DOMAIN inputROIs) :
          /\ motionData' = analyzeMotion(MapOf(inputROIs, order), inputFps, PixelsPerMeter)
          /\ insertionAscending' = IsAscending(order)
    /\ mpc' = "analyzed"
    /\ UNCHANGED << inputROIs, inputFps, windowSize, smoothedMotion, trackerVars,
                    indexVars, detectVars >>

\* const smoothedMotion = smoothMotionData(motion, windowSize)
Smooth ==
    /\ mpc = "analyzed"
    /\ \E w \in WindowSizes :
          /\ windowSize' = w
          /\ smoothedMotion' = smoothMotionData(motionData, w)
    /\ mpc' = "smoothed"
    /\ UNCHANGED << inputROIs, inputFps, insertionAscending, motionData, trackerVars,
                    indexVars, detectVars >>

MotionNext ==
    \/ Analyze
    \/ Smooth

SpecMotion == MotionInit /\ [][MotionNext]_vars

(***************************************************************************)
(* Properties of the kinematics pipeline.                                  *)
(***************************************************************************)
Keys == DOMAIN inputROIs

Analyzed == mpc \in {"analyzed", "smoothed"}

\* the position of the box at key k
PosX(k) == CenterX(inputROIs[k], PixelsPerMeter)

PosY(k) == CenterY(inputROIs[k], PixelsPerMeter)

\* the time elapsed between keys a and b: (b - a) / fps
Elapsed(a, b) == Rat(b - a, inputFps)

HasGap == \E k \in Keys : (k + 1) \notin Keys /\ \E m \in Keys : m > k + 1

C7_VelocityOverElapsedTime ==
    (Analyzed /\ Cardinality(Keys) >= 2) =>
        \A j \in 1..Len(motionData) :
            LET n == Len(motionData)
                lo == motionData[IF j > 1 THEN j - 1 ELSE j].frame
                hi == motionData[IF j < n THEN j + 1 ELSE j].frame
            IN  /\ motionData[j].vx = RDiv(RSub(PosX(hi), PosX(lo)), Elapsed(lo, hi))
                /\ motionData[j].vy = RDiv(RSub(PosY(hi), PosY(lo)), Elapsed(lo, hi))

\* C8: for every sample after the first, ax and ay are the difference of
\* its velocity and the velocity of the sample before, divided by the time
\* elapsed between their keys; the first sample has ax = ay = acceleration
\* = 0.
C8_AccelerationOverElapsedTime ==
    (Analyzed /\ Cardinality(Keys) >= 2) =>
        /\ motionData[1].ax = Num(0)
        /\ motionData[1].ay = Num(0)
        /\ motionData[1].acceleration = Num(0)
        /\ \A j \in 2..Len(motionData) :
              LET dtTrue == Elapsed(motionData[j - 1].frame, motionData[j].frame)
              IN  /\ motionData[j].ax =
                        RDiv(RSub(motionData[j].vx, motionData[j - 1].vx), dtTrue)
                  /\ motionData[j].ay =
                        RDiv(RSub(motionData[j].vy, motionData[j - 1].vy), dtTrue)

\* the box centres lie on a line of constant velocity <<vx, vy>>
ConstantVelocity(vx, vy) ==
    \A a, b \in Keys :
        /\ RSub(PosX(b), PosX(a)) = RMul(vx, Elapsed(a, b))
        /\ RSub(PosY(b), PosY(a)) = RMul(vy, Elapsed(a, b))

\* the velocity between the two lowest keys
FirstVelocity ==
    LET a == CHOOSE k \in Keys : \A m \in Keys : k <= m
        b == CHOOSE k \in Keys \ {a} : \A m \in Keys \ {a} : k <= m
    IN  [vx |-> RDiv(RSub(PosX(b), PosX(a)), Elapsed(a, b)),
         vy |-> RDiv(RSub(PosY(b), PosY(a)), Elapsed(a, b))]

\* C9: for a track of constant velocity v, over any key set with n >= 2
\* keys, every interior sample has velocity v and every sample has
\* acceleration 0.
C9_ConstantVelocityTrack ==
    (Analyzed /\ Cardinality(Keys) >= 2
        /\ ConstantVelocity(FirstVelocity.vx, FirstVelocity.vy)) =>
        /\ \A j \in 2..(Len(motionData) - 1) :
              /\ motionData[j].vx = FirstVelocity.vx
              /\ motionData[j].vy = FirstVelocity.vy
        /\ \A j \in 1..Len(motionData) :
              /\ motionData[j].ax = Num(0)
              /\ motionData[j].ay = Num(0)
              /\ motionData[j].acceleration = Num(0)

\* C10: smoothMotionData returns as many samples as it was given, and the
\* sample at each position has the frame and the time of the sample given
\* at that position.
C10_SmoothKeepsFrameAndTime ==
    mpc = "smoothed" =>
        /\ Len(smoothedMotion) = Len(motionData)
        /\ \A j \in 1..Len(motionData) :
              /\ smoothedMotion[j].frame = motionData[j].frame
              /\ smoothedMotion[j].time = motionData[j].time

\* three samples averaged with window 3: the values changed
C10_Witness ==
    /\ mpc = "smoothed"
    /\ windowSize = 3
    /\ Len(motionData) = 3
    /\ \E j \in 1..3 : smoothedMotion[j].vx # motionData[j].vx

\* speed = |(vx, vy)| and acceleration = |(ax, ay)|, neither negative
NormsHold(sample) ==
    /\ RMul(sample.speed, sample.speed) =
           RAdd(RMul(sample.vx, sample.vx), RMul(sample.vy, sample.vy))
    /\ RMul(sample.acceleration, sample.acceleration) =
           RAdd(RMul(sample.ax, sample.ax), RMul(sample.ay, sample.ay))
    /\ Sign(sample.speed[1]) >= 0
    /\ Sign(sample.acceleration[1]) >= 0

\* the samples handed to setMotionData: smoothMotionData(motion, 3)
Presented == mpc = "smoothed" /\ windowSize = 3

\* C11: every sample returned by analyzeMotion, and every sample returned
\* by smoothMotionData with window 3 applied to it, has speed^2 = vx^2 +
\* vy^2 and acceleration^2 = ax^2 + ay^2 with speed, acceleration >= 0.
C11_SpeedAndAccelerationAreNorms ==
    /\ Analyzed => \A j \in 1..Len(motionData) : NormsHold(motionData[j])
    /\ Presented => \A j \in 1..Len(smoothedMotion) : NormsHold(smoothedMotion[j])

(***************************************************************************)
(* The page (Index.tsx 17-256): the user saves boxes and finalizes the     *)
(* selection; a finalization runs the tracker, merges its result with      *)
(* frameROIs, stores the merge in frameROIs and analyzes it.               *)
(***************************************************************************)
MaxSaves == 2

\* useState(10)
DefaultFps == 10

\* The backends of a finalization: the candidate matches the hint or there
\* is none, so that every box of the page stays one the user drew.
IndexDetectors == {"perfect", "empty"}

\* Math.min(...Array.from(frameROIs.keys()))
firstFrameWithROI(roiMap) ==
    CHOOSE k \in MapKeySet(roiMap) : \A m \in MapKeySet(roiMap) : k <= m

\* frameROIs.forEach((roi, frameIndex) => mergedROIs.set(frameIndex, roi))
RECURSIVE SetEach(_, _, _)
SetEach(merged, existing, j) ==
    IF j > Len(existing) THEN merged
    ELSE SetEach(MapSet(merged, existing[j].key, existing[j].value), existing, j + 1)

\* const mergedROIs = new Map(trackedROIs); frameROIs.forEach(...)
mergedROIs(tracked, existing) == SetEach(tracked, existing, 1)

IndexInit ==
    /\ TrackerInit
    /\ MotionIdle
    /\ DetectIdle
    /\ extractedFrames \in 1..MaxFrames
    /\ frameROIs = EmptyMap
    /\ handlerROIs = EmptyMap
    /\ userSaved = << >>
    /\ savedAtClick = << >>
    /\ saves = 0

\* handleSaveROI (190-199) with the box drawn on frame index; the button is
\* there during a tracking run as well.  The continuation of an await that
\* has settled runs before the next user event.
handleSaveROI(index, roi) ==
    /\ pc \notin {"returned", "threw"}
    /\ saves < MaxSaves
    /\ saves' = saves + 1
    /\ frameROIs' = MapSet(frameROIs, index, roi)
    /\ userSaved' = [k \in DOMAIN userSaved \cup {index} |->
                        IF k = index THEN roi ELSE userSaved[k]]
    /\ UNCHANGED << extractedFrames, handlerROIs, savedAtClick, trackerVars,
                    motionVars, detectVars >>

\* currentFrameIndex is any frame the user navigated to (176-188)
SaveROI ==
    \E index \in 0..(extractedFrames - 1), roi \in InitialROIs :
        handleSaveROI(index, roi)

\* handleCompleteROISelection up to its await (201-228); the button is
\* disabled while frameROIs is empty or a run is tracking (490)
Finalize ==
    /\ pc = "idle"
    /\ ~isTracking
    /\ Len(frameROIs) # 0
    /\ \E backend \in IndexDetectors :
          Call(extractedFrames, firstFrameWithROI(frameROIs),
               MapGet(frameROIs, firstFrameWithROI(frameROIs)), backend)
    /\ handlerROIs' = frameROIs
    /\ savedAtClick' = userSaved
    /\ UNCHANGED << extractedFrames, frameROIs, userSaved, saves, motionVars,
                    detectVars >>

\* handleCompleteROISelection after its await returned (230-248)
Merge ==
    /\ pc = "returned"
    /\ LET merged == mergedROIs(trackedROIs, handlerROIs)
           motion == analyzeMotion(merged, DefaultFps, PixelsPerMeter)
       IN  /\ frameROIs' = merged
           /\ inputROIs' = [k \in MapKeySet(merged) |-> MapGet(merged, k)]
           /\ inputFps' = DefaultFps
           /\ insertionAscending' = IsAscending(MapKeys(merged))
           /\ motionData' = motion
           /\ windowSize' = 3
           /\ smoothedMotion' = smoothMotionData(motion, 3)
           /\ mpc' = "smoothed"
    /\ Rest
    /\ handlerROIs' = EmptyMap
    /\ savedAtClick' = << >>
    /\ UNCHANGED << extractedFrames, userSaved, saves, detectVars >>

\* handleCompleteROISelection after its await threw (249-255): a toast
Catch ==
    /\ pc = "threw"
    /\ Rest
    /\ handlerROIs' = EmptyMap
    /\ savedAtClick' = << >>
    /\ UNCHANGED << extractedFrames, frameROIs, userSaved, saves, motionVars,
                    detectVars >>

IndexNext ==
    \/ SaveROI
    \/ Finalize
    \/ EnsureModel
    \/ ForwardStep
    \/ ForwardDone
    \/ BackwardStep
    \/ Return
    \/ Merge
    \/ Catch

SpecIndex == IndexInit /\ [][IndexNext]_vars

(***************************************************************************)
(* Properties of the page.                                                 *)
(***************************************************************************)

\* the merge of a finalization is being stored
Merging == pc = "returned" /\ pc' = "idle"

\* C12: in the sequence a finalization produces, every index at which the
\* user had saved a box holds the user's box, and every other index holds
\* the entry the tracker produced for it in this finalization.
C12_UserBoxesOverTrackerEntries ==
    [][Merging =>
        \A f \in 0..(frames - 1) :
            /\ MapHas(frameROIs', f)
            /\ MapGet(frameROIs', f) =
                  IF f \in DOMAIN savedAtClick THEN savedAtClick[f]
                  ELSE MapGet(trackedROIs, f)]_vars

\* an entry the tracker produced carries a confidence (TrackedROI); a box
\* the user drew does not
IsTrackerEntry(roi) == "confidence" \in DOMAIN roi

\* C13: the boxes a finalization starts from, which take precedence in its
\* merge, are boxes the user saved, at the indices the user saved them at,
\* and its anchor is the lowest index the user saved a box at, with a box
\* of the user as initial box: no entry an earlier finalization's tracker
\* produced is among them.
C13_RebuiltFromUserBoxes ==
    pc # "idle" =>
        /\ MapKeySet(handlerROIs) = DOMAIN savedAtClick
        /\ \A j \in 1..Len(handlerROIs) : ~IsTrackerEntry(handlerROIs[j].value)
        /\ \A f \in DOMAIN savedAtClick : startFrameIndex <= f
        /\ startFrameIndex \in DOMAIN savedAtClick
        /\ ~IsTrackerEntry(initialROI)

(***************************************************************************)
(* One detection step on its own: the try block of detectObject (Index.tsx *)
(* 648-664) applied to every bounded hint and every bounded list of        *)
(* proposals, on a frame of FrameSize.                                     *)
(***************************************************************************)

\* const padding = 50
Padding == 50

\* preprocessImage (734-772): the rectangle x, y, w, h of imageData that is
\* drawn, resized to 640 x 640, into the input tensor
preprocessImage(imageData, roi) ==
    LET x == Max(0, roi.x - Padding)
        y == Max(0, roi.y - Padding)
    IN  [x |-> x, y |-> y,
         w |-> Min(imageData.width - x, roi.w + Padding * 2),
         h |-> Min(imageData.height - y, roi.h + Padding * 2)]

\* Hints whose centre and whose crop's centre lie on the line y = 320: the
\* whole frame, a box in the middle, a box near the left and the top edge,
\* one near the right edge, one near the top and the bottom edge.
StepROIs ==
    { Box(0, 20, 1280, 600), Box(100, 50, 540, 540), Box(20, 20, 100, 600),
      Box(1200, 310, 60, 20), Box(600, 20, 40, 600) }

\* Proposals on the line y = 320 of the tensor, so that every distance is
\* rational: at the tensor's centre, left of it, at the threshold.
StepProposals ==
    { Proposal(320, 320, 100, 100, 90), Proposal(185, 320, 100, 100, 90),
      Proposal(320, 320, 60, 60, 90), Proposal(320, 320, 50, 50, 25) }

StepResultLists == UNION { [1..n -> StepProposals] : n \in 0..MaxCands }

DetectInit ==
    /\ TrackerInit
    /\ MotionIdle
    /\ IndexIdle
    /\ dpc = "input"
    /\ stepROI \in StepROIs
    /\ stepRegion = Box(0, 0, 0, 0)
    /\ stepResults = << >>
    /\ stepDetection = Null

\* const inputTensor = preprocessImage(imageData, targetROI)
Preprocess ==
    /\ dpc = "input"
    /\ stepRegion' = preprocessImage(FrameSize, stepROI)
    /\ dpc' = "cropped"
    /\ UNCHANGED << stepROI, stepResults, stepDetection, trackerVars, motionVars,
                    indexVars >>

\* const results = await session.run(feeds)
Infer ==
    /\ dpc = "cropped"
    /\ \E r \in StepResultLists : stepResults' = r
    /\ dpc' = "inferred"
    /\ UNCHANGED << stepROI, stepRegion, stepDetection, trackerVars, motionVars,
                    indexVars >>

\* session.run throws: catch (error) { return null }
InferThrows ==
    /\ dpc = "cropped"
    /\ stepDetection' = Null
    /\ dpc' = "detected"
    /\ UNCHANGED << stepROI, stepRegion, stepResults, trackerVars, motionVars,
                    indexVars >>

\* const detection = postprocessResults(results, targetROI, width, height)
Postprocess ==
    /\ dpc = "inferred"
    /\ stepDetection' = postprocessResults(stepResults, stepROI, FrameSize.width,
                                           FrameSize.height)
    /\ dpc' = "detected"
    /\ UNCHANGED << stepROI, stepRegion, stepResults, trackerVars, motionVars,
                    indexVars >>

DetectNext ==
    \/ Preprocess
    \/ Infer
    \/ InferThrows
    \/ Postprocess

SpecDetect == DetectInit /\ [][DetectNext]_vars

(***************************************************************************)
(* Properties of the detection step.                                       *)
(***************************************************************************)
RAbs(a) == << Abs(a[1]), a[2] >>

RGreater(a, b) == RSub(a, b)[1] > 0

\* The centre of a proposal in the pixel space of the frame: the tensor
\* shows the crop stepRegion resized to 640 x 640.
FrameCenterX(p) == RAdd(Num(stepRegion.x), Rat(p.x * stepRegion.w, ModelSize))

FrameCenterY(p) == RAdd(Num(stepRegion.y), Rat(p.y * stepRegion.h, ModelSize))

\* the Euclidean distance of that centre from the hint's centre
FrameDistance(p) ==
    LET dx == RSub(FrameCenterX(p), Rat(2 * stepROI.x + stepROI.w, 2))
        dy == RSub(FrameCenterY(p), Rat(2 * stepROI.y + stepROI.h, 2))
    IN  IF dy = Num(0) THEN RAbs(dx)
        ELSE IF dx = Num(0) THEN RAbs(dy)
        ELSE RSqrt(RAdd(RMul(dx, dx), RMul(dy, dy)))

\* confidence / (1 + d / 100)
FrameScore(p) ==
    RDiv(Rat(p.score, 100), RAdd(Num(1), RDiv(FrameDistance(p), Num(100))))

\* the candidates with confidence above the threshold
Accepted == { j \in 1..Len(stepResults) : stepResults[j].score > Threshold }

\* the first of the accepted candidates with the largest score
Chosen ==
    CHOOSE j \in Accepted :
        \A k \in Accepted :
            /\ ~RGreater(FrameScore(stepResults[k]), FrameScore(stepResults[j]))
            /\ FrameScore(stepResults[k]) = FrameScore(stepResults[j]) => j <= k

\* C14: a detection step returns, of the candidates with confidence
\* strictly above 0.25, the first with the largest score confidence / (1 +
\* d / 100), d being the distance of the candidate's centre from the hint's
\* centre in the pixel space of the frame; with no such candidate it
\* returns no detection.
C14_NearestConfidentCandidate ==
    dpc = "detected" =>
        IF Accepted = {} THEN IsNull(stepDetection)
        ELSE stepDetection =
                 DetectionOf(stepResults[Chosen], FrameSize.width, FrameSize.height)

\* C16: the search region of a step is the hint expanded by 50 pixels on
\* every side and intersected with the image: left = max(0, x - 50), top =
\* max(0, y - 50), right = min(W, x + w + 50), bottom = min(H, y + h + 50),
\* also for a hint closer than 50 pixels to the left or the top edge.
C16_RegionIsPaddedHintInImage ==
    dpc \in {"cropped", "inferred", "detected"} =>
        /\ stepRegion.x = Max(0, stepROI.x - 50)
        /\ stepRegion.y = Max(0, stepROI.y - 50)
        /\ stepRegion.x + stepRegion.w = Min(FrameSize.width, stepROI.x + stepROI.w + 50)
        /\ stepRegion.y + stepRegion.h = Min(FrameSize.height, stepROI.y + stepROI.h + 50)

====
